---------------------------- MODULE Spec2Model ----------------------------
(***************************************************************************)
(* Model of the win_partitions crate: the OS query layer of                *)
(* src/src/win_api.rs and the partition aggregator get_partitions of       *)
(* src/src/windows_partitions.rs.                                          *)
(*                                                                         *)
(* Representation.                                                         *)
(*   - a u32 bit pattern (the logical-drive bitmask, the loop's mask) is   *)
(*     the set of the positions 0..31 of its set bits, so that all 32 bits *)
(*     are kept: 0 is {}, 1 is {0}, a & b is the intersection, a << 1      *)
(*     moves every position up and drops what leaves bit 31;               *)
(*   - a char is its Unicode scalar value, a String the sequence of its    *)
(*     chars, a UTF-16 buffer the sequence of its u16 code units;          *)
(*   - the host (the four native entry points) answers each query          *)
(*     nondeterministically the first time it is asked and identically     *)
(*     afterwards: hostLastError, hostType, hostSpace, hostVolume hold the *)
(*     answers given so far (an unchanged host).                           *)
(***************************************************************************)
EXTENDS Integers, Sequences, FiniteSets, TLC

VARIABLES
    bitmask,            \* what GetLogicalDrives returns on this host
    hostLastError,      \* GetLastError after GetLogicalDrives returned 0
    hostType,           \* letter -> native code GetDriveTypeW returns
    hostSpace,          \* letter -> answer of GetDiskFreeSpaceExW
    hostVolume,         \* letter -> answer of GetVolumeInformationW
    pc,                 \* position inside get_partitions
    drives,             \* get_partitions: drives
    idx,                \* get_partitions: position of the for loop in drives
    result,             \* get_partitions: result
    drive_type,         \* get_partitions: drive_type
    ready,              \* get_partitions: ready
    name,               \* get_partitions: name
    total_size,         \* get_partitions: total_size
    free_space,         \* get_partitions: free_space
    file_system_name,   \* get_partitions: file_system_name
    ret,                \* what the running call of get_partitions returned
    log,                \* the native queries of the running call, in order
    outcomes,           \* the outcomes of the completed calls, in order
    vec,                \* vec_u16_to_string: its argument
    decoded             \* vec_u16_to_string: its return value, once returned

vars == <<bitmask, hostLastError, hostType, hostSpace, hostVolume, pc, drives,
          idx, result, drive_type, ready, name, total_size, free_space,
          file_system_name, ret, log, outcomes, vec, decoded>>

hostVars == <<bitmask, hostLastError, hostType, hostSpace, hostVolume>>
localVars == <<drive_type, ready, name, total_size, free_space, file_system_name>>
stringVars == <<vec, decoded>>

---------------------------------------------------------------------------
(* Bounds of the model. *)

\* Native drive-type codes range over 0..MaxDriveCode (a u32 in the code).
MaxDriveCode == 7
\* A process calls get_partitions at most MaxCalls times in a row.
MaxCalls == 2
\* vec_u16_to_string is applied to every buffer of at most MaxLen units.
MaxLen == 4

(* Program constants. *)

\* The OS code "device not ready" that get_partitions absorbs.
ERROR_NOT_READY == 21
\* Capacity in u16 units of the volume-name buffer.
VOLUME_NAME_CAPACITY == 64
\* Capacity in u16 units of the file-system-name buffer.
FILE_SYSTEM_NAME_CAPACITY == 255
\* The drive-letter loop of get_logical_drive runs index over 1..=26.
LAST_DRIVE_INDEX == 26
\* index + 64 is the letter's scalar value: 1 -> 'A'.
LETTER_BASE == 64
\* Width of the bitmask and of mask.
U32_BITS == 32

---------------------------------------------------------------------------
(* Unicode and UTF-16. *)

REPLACEMENT_CHARACTER == 65533      \* U+FFFD

IsHighSurrogate(u) == u >= 55296 /\ u <= 56319      \* 0xD800..0xDBFF
IsLowSurrogate(u) == u >= 56320 /\ u <= 57343       \* 0xDC00..0xDFFF

\* String::from_utf16_lossy: a unit outside the surrogate range is the char
\* itself, a high surrogate followed by a low one is the supplementary char
\* they encode, and any other surrogate becomes U+FFFD (the unit after a
\* lone high surrogate is decoded on its own).
RECURSIVE from_utf16_lossy(_)
from_utf16_lossy(v) ==
    IF Len(v) = 0 THEN <<>>
    ELSE IF IsHighSurrogate(v[1]) /\ Len(v) >= 2 /\ IsLowSurrogate(v[2])
         THEN <<65536 + (v[1] - 55296) * 1024 + (v[2] - 56320)>>
                  \o from_utf16_lossy(SubSeq(v, 3, Len(v)))
    ELSE IF IsHighSurrogate(v[1]) \/ IsLowSurrogate(v[1])
         THEN <<REPLACEMENT_CHARACTER>> \o from_utf16_lossy(Tail(v))
    ELSE <<v[1]>> \o from_utf16_lossy(Tail(v))

\* The for loop of vec_u16_to_string: item runs over 0..vec.len(), the loop
\* breaks at the first 0 unit, index is one past the last unit kept.
\* v[item + 1] is the code's vec[item] (sequences start at 1).
RECURSIVE ScanIndex(_, _, _)
ScanIndex(v, item, index) ==
    IF item >= Len(v) THEN index
    ELSE IF v[item + 1] = 0 THEN index
    ELSE ScanIndex(v, item + 1, item + 1)

\* The loop with the update "index = item" (one unit short).
RECURSIVE ScanIndexShort(_, _, _)
ScanIndexShort(v, item, index) ==
    IF item >= Len(v) THEN index
    ELSE IF v[item + 1] = 0 THEN index
    ELSE ScanIndexShort(v, item + 1, item)

vec_u16_to_string_short(v) ==
    from_utf16_lossy(SubSeq(v, 1, ScanIndexShort(v, 0, 0)))

\* vec_u16_to_string: String::from_utf16_lossy(&vec[0..index]).
vec_u16_to_string(v) ==
    from_utf16_lossy(SubSeq(v, 1, ScanIndex(v, 0, 0)))

---------------------------------------------------------------------------
(* DriveType. *)

DriveTypes == {"DriveUnknown", "DriveNoRootDir", "DriveRemovable",
               "DriveFixed", "DriveRemote", "DriveCDRom", "DriveRamDisk"}

\* The discriminants of enum DriveType.
Discriminant(t) ==
    CASE t = "DriveUnknown" -> 0
      [] t = "DriveNoRootDir" -> 1
      [] t = "DriveRemovable" -> 2
      [] t = "DriveFixed" -> 3
      [] t = "DriveRemote" -> 4
      [] t = "DriveCDRom" -> 5
      [] t = "DriveRamDisk" -> 6

\* What a panicking conversion yields instead of a DriveType.
Panic == "panic"

\* A conversion that defaults to DriveUnknown instead of panicking.
DriveTypeFromDefaulting(index) ==
    CASE index = 1 -> "DriveNoRootDir"
      [] index = 2 -> "DriveRemovable"
      [] index = 3 -> "DriveFixed"
      [] index = 4 -> "DriveRemote"
      [] index = 5 -> "DriveCDRom"
      [] index = 6 -> "DriveRamDisk"
      [] OTHER -> "DriveUnknown"

\* impl From<u32> for DriveType.
DriveTypeFrom(index) ==
    CASE index = 0 -> "DriveUnknown"
      [] index = 1 -> "DriveNoRootDir"
      [] index = 2 -> "DriveRemovable"
      [] index = 3 -> "DriveFixed"
      [] index = 4 -> "DriveRemote"
      [] index = 5 -> "DriveCDRom"
      [] index = 6 -> "DriveRamDisk"
      [] OTHER -> Panic

\* get_drive_type: DriveType::from(GetDriveTypeW(path)).
get_drive_type(native) == DriveTypeFrom(native)

---------------------------------------------------------------------------
(* u32 bit patterns as sets of bit positions. *)

U32_ONE == {0}                                   \* the literal 1
BitAnd(a, b) == a \cap b                         \* a & b
ShiftLeft1(a) == {p + 1 : p \in {q \in a : q + 1 < U32_BITS}}   \* a << 1

\* std::char::from_u32(n).unwrap(): a surrogate or a value above U+10FFFF
\* is no char, and unwrap panics.
char_from_u32(n) ==
    IF (n >= 55296 /\ n <= 57343) \/ n > 1114111 THEN Panic ELSE n

\* The range with its last index left out (1..26 instead of 1..=26).
ExclusiveLastIndex == LAST_DRIVE_INDEX - 1

\* The last value of index in "for index in 1..=26".
LastIndex == LAST_DRIVE_INDEX

\* A base that makes index 1 the letter 'B'.
LetterBaseOffByOne == LETTER_BASE + 1

\* The offset of "index + 64".
LetterBase == LETTER_BASE

\* The for loop of get_logical_drive, from index with the current mask and
\* the letters pushed so far.
RECURSIVE DriveLoop(_, _, _, _)
DriveLoop(index, mask, bm, acc) ==
    IF index > LastIndex THEN acc
    ELSE DriveLoop(index + 1, ShiftLeft1(mask), bm,
                   IF BitAnd(mask, bm) = mask
                   THEN Append(acc, char_from_u32(index + LetterBase))
                   ELSE acc)

\* get_logical_drive: Err(last_os_error) when the bitmask is 0, else the
\* letters of the loop.
get_logical_drive(bm, lastError) ==
    IF bm = {}
    THEN [ok |-> FALSE, value |-> <<>>, code |-> lastError]
    ELSE [ok |-> TRUE, value |-> DriveLoop(1, U32_ONE, bm, <<>>), code |-> 0]

---------------------------------------------------------------------------
(* The host's answers. *)

\* Codes a failing native call leaves in GetLastError: access denied and
\* device not ready.
ErrorCodes == {5, ERROR_NOT_READY}

DriveCodes == 0..MaxDriveCode

\* (bytesAvailableToCaller, totalBytes, totalFreeBytes) of a successful
\* GetDiskFreeSpaceExW.
DiskSpaces == {<<10, 100, 40>>, <<5, 7, 6>>}

DATA == <<68, 65, 84, 65>>      \* "DATA"
NTFS == <<78, 84, 70, 83>>      \* "NTFS"
EmptyString == <<>>             \* ""

\* What GetVolumeInformationW writes as the volume name and as the
\* file-system name (without the terminator).
VolumeLabels == {DATA, EmptyString}
FileSystems == {NTFS}

SpaceAnswers ==
    {[ok |-> TRUE, value |-> v, code |-> 0] : v \in DiskSpaces}
    \cup {[ok |-> FALSE, value |-> <<0, 0, 0>>, code |-> e] : e \in ErrorCodes}

VolumeAnswers ==
    {[ok |-> TRUE, label |-> l, fs |-> f, code |-> 0] :
        l \in VolumeLabels, f \in FileSystems}
    \cup {[ok |-> FALSE, label |-> <<>>, fs |-> <<>>, code |-> e] : e \in ErrorCodes}

\* A buffer resized to cap zero units in which the native call wrote the
\* units of s, followed by its terminator.
Filled(s, cap) == [k \in 1..cap |-> IF k <= Len(s) THEN s[k] ELSE 0]

\* get_disk_free_space: the three byte counts, or Err(last_os_error).
get_disk_free_space(answer) ==
    IF answer.ok
    THEN [ok |-> TRUE, value |-> answer.value, code |-> 0]
    ELSE [ok |-> FALSE, value |-> <<0, 0, 0>>, code |-> answer.code]

\* get_volume_information: the two buffers decoded by vec_u16_to_string, or
\* Err(last_os_error). The serial number, the maximum component length and
\* the flags are returned too and never read by get_partitions.
get_volume_information(answer) ==
    IF answer.ok
    THEN [ok |-> TRUE,
          value |-> <<vec_u16_to_string(Filled(answer.label, VOLUME_NAME_CAPACITY)),
                      vec_u16_to_string(Filled(answer.fs, FILE_SYSTEM_NAME_CAPACITY))>>,
          code |-> 0]
    ELSE [ok |-> FALSE, value |-> <<<<>>, <<>>>>, code |-> answer.code]

\* The answers the host may give for key: the one it gave before, or any.
Answers(host, key, all) == IF key \in DOMAIN host THEN {host[key]} ELSE all

Remember(host, key, answer) == (key :> answer) @@ host

---------------------------------------------------------------------------
(* get_partitions. *)

NoReturn == [kind |-> "None", code |-> 0, list |-> <<>>]
ReturnOk(list) == [kind |-> "Ok", code |-> 0, list |-> list]
ReturnErr(code) == [kind |-> "Err", code |-> code, list |-> <<>>]
Panicked == [kind |-> "Panic", code |-> 0, list |-> <<>>]

Event(op, letter, ok, code) ==
    [op |-> op, letter |-> letter, ok |-> ok, code |-> code]

\* A policy that takes every error for "device not ready".
EveryErrorNotReady(code) == TRUE

\* err.raw_os_error().is_some() && err.raw_os_error().unwrap() == 21
\* (an error of last_os_error always has a raw code).
IsNotReady(code) == code = ERROR_NOT_READY

\* A result that keeps the records of the call before.
StaleResult == result

\* let mut result: Vec<WindowsPartition> = vec![];
NewResult == <<>>

\* "ready = false" forgotten: ready keeps its value.
ReadyKept == ready

\* ready = false; after a free-space query that failed with 21.
SpaceNotReady == FALSE

\* ready = false; after a volume-information query that failed with 21.
VolumeNotReady == FALSE

\* The free bytes taken from the first count, bytesAvailableToCaller.
FreeBytesAvailable(value) == value[1]

\* total_size = value.1;
TotalSizeOf(value) == value[2]

\* free_space = value.2;
FreeSpaceOf(value) == value[3]

\* The record pushed at the end of an iteration.
WindowsPartition(l, r, n, s, f, fsn, t) ==
    [letter |-> l, ready |-> r, name |-> n, size |-> s, free_space |-> f,
     file_system_name |-> fsn, drive_type |-> t]

InitLocals ==
    /\ drive_type = "DriveUnknown"
    /\ ready = TRUE
    /\ name = <<>>
    /\ total_size = 0
    /\ free_space = 0
    /\ file_system_name = <<>>

\* The running call ends with outcome r.
Finish(r) ==
    /\ ret' = r
    /\ outcomes' = Append(outcomes, r)
    /\ pc' = "done"

\* let drives = get_logical_drive()?; let mut result = vec![];
CallGetLogicalDrive ==
    /\ pc = "start"
    /\ \E e \in (IF bitmask = {}
                 THEN (IF hostLastError = -1 THEN ErrorCodes ELSE {hostLastError})
                 ELSE {hostLastError}) :
          LET r == get_logical_drive(bitmask, e) IN
          /\ hostLastError' = e
          /\ log' = Append(log, Event("drives", 0, r.ok, r.code))
          /\ IF r.ok
             THEN /\ drives' = r.value
                  /\ result' = NewResult
                  /\ idx' = 1
                  /\ pc' = "loop"
                  /\ UNCHANGED <<ret, outcomes>>
             ELSE /\ Finish(ReturnErr(r.code))
                  /\ UNCHANGED <<drives, result, idx>>
    /\ UNCHANGED <<bitmask, hostType, hostSpace, hostVolume, localVars, stringVars>>

\* The head of an iteration: the path, get_drive_type, and the locals.
QueryDriveType ==
    /\ pc = "loop"
    /\ idx <= Len(drives)
    /\ LET letter == drives[idx] IN
       \E c \in Answers(hostType, letter, DriveCodes) :
          LET t == get_drive_type(c) IN
          /\ hostType' = Remember(hostType, letter, c)
          /\ log' = Append(log, Event("type", letter, TRUE, c))
          /\ IF t = Panic
             THEN /\ ret' = Panicked
                  /\ outcomes' = Append(outcomes, Panicked)
                  /\ pc' = "done"
                  /\ UNCHANGED localVars
             ELSE /\ drive_type' = t
                  /\ ready' = TRUE
                  /\ name' = <<>>
                  /\ total_size' = 0
                  /\ free_space' = 0
                  /\ file_system_name' = <<>>
                  /\ pc' = "space"
                  /\ UNCHANGED <<ret, outcomes>>
    /\ UNCHANGED <<bitmask, hostLastError, hostSpace, hostVolume, drives, idx,
                   result, stringVars>>

\* match get_disk_free_space(path.to_string()) { ... }
QueryDiskFreeSpace ==
    /\ pc = "space"
    /\ LET letter == drives[idx] IN
       \E a \in Answers(hostSpace, letter, SpaceAnswers) :
          LET r == get_disk_free_space(a) IN
          /\ hostSpace' = Remember(hostSpace, letter, a)
          /\ log' = Append(log, Event("space", letter, r.ok, r.code))
          /\ IF r.ok
             THEN /\ total_size' = TotalSizeOf(r.value)
                  /\ free_space' = FreeSpaceOf(r.value)
                  /\ pc' = "volume"
                  /\ UNCHANGED <<ready, ret, outcomes>>
             ELSE IF IsNotReady(r.code)
             THEN /\ ready' = SpaceNotReady
                  /\ pc' = "volume"
                  /\ UNCHANGED <<total_size, free_space, ret, outcomes>>
             ELSE /\ Finish(ReturnErr(r.code))
                  /\ UNCHANGED <<ready, total_size, free_space>>
    /\ UNCHANGED <<bitmask, hostLastError, hostType, hostVolume, drives, idx,
                   result, drive_type, name, file_system_name, stringVars>>

\* match get_volume_information(path.to_string()) { ... } and, unless the
\* call returned, result.push(WindowsPartition { ... }).
QueryVolumeInformation ==
    /\ pc = "volume"
    /\ LET letter == drives[idx] IN
       \E a \in Answers(hostVolume, letter, VolumeAnswers) :
          \E r \in {get_volume_information(a)} :
          LET fatal == ~r.ok /\ ~IsNotReady(r.code)
              ready2 == IF r.ok THEN ready ELSE VolumeNotReady
              name2 == IF r.ok THEN r.value[1] ELSE name
              fsn2 == IF r.ok THEN r.value[2] ELSE file_system_name
          IN
          /\ hostVolume' = Remember(hostVolume, letter, a)
          /\ log' = Append(log, Event("volume", letter, r.ok, r.code))
          /\ IF fatal
             THEN /\ Finish(ReturnErr(r.code))
                  /\ UNCHANGED <<ready, name, file_system_name, result, idx>>
             ELSE /\ ready' = ready2
                  /\ name' = name2
                  /\ file_system_name' = fsn2
                  /\ result' = Append(result,
                                  WindowsPartition(letter, ready2, name2, total_size,
                                                   free_space, fsn2, drive_type))
                  /\ idx' = idx + 1
                  /\ pc' = "loop"
                  /\ UNCHANGED <<ret, outcomes>>
    /\ UNCHANGED <<bitmask, hostLastError, hostType, hostSpace, drives,
                   drive_type, total_size, free_space, stringVars>>

\* The loop is over: Ok(result).
ReturnResult ==
    /\ pc = "loop"
    /\ idx > Len(drives)
    /\ Finish(ReturnOk(result))
    /\ UNCHANGED <<hostVars, drives, idx, result, localVars, log, stringVars>>

\* The caller calls get_partitions again (after a panic: a caller that
\* caught the unwinding). The call initializes every local before it reads
\* it, so what the call before left in them stays until then.
CallAgain ==
    /\ pc = "done"
    /\ Len(outcomes) < MaxCalls
    /\ pc' = "start"
    /\ ret' = NoReturn
    /\ log' = <<>>
    /\ UNCHANGED <<hostVars, drives, idx, result, localVars, outcomes, stringVars>>

---------------------------------------------------------------------------
(* The hosts of the model. *)

\* Drives C: and D:, and bit 26, which names no letter.
HostBits == {2, 3, 26}
HostBitmasks == SUBSET HostBits

InitCall ==
    /\ hostLastError = -1
    /\ hostType = <<>>
    /\ hostSpace = <<>>
    /\ hostVolume = <<>>
    /\ pc = "start"
    /\ drives = <<>>
    /\ idx = 1
    /\ result = <<>>
    /\ InitLocals
    /\ ret = NoReturn
    /\ log = <<>>
    /\ outcomes = <<>>
    /\ vec = <<>>
    /\ decoded = [done |-> FALSE, value |-> <<>>]

Init ==
    /\ bitmask \in HostBitmasks
    /\ InitCall

Next ==
    \/ CallGetLogicalDrive
    \/ QueryDriveType
    \/ QueryDiskFreeSpace
    \/ QueryVolumeInformation
    \/ ReturnResult
    \/ CallAgain

Spec == Init /\ [][Next]_vars

---------------------------------------------------------------------------
(* get_logical_drive alone, over bitmasks with bits at both ends of the    *)
(* letter range and above it.                                              *)

ProbeBits == {0, 1, 2, 24, 25, 26, 27, 31}
ProbeBitmasks == SUBSET ProbeBits

InitDrives ==
    /\ bitmask \in ProbeBitmasks
    /\ InitCall

NextDrives == CallGetLogicalDrive

SpecDrives == InitDrives /\ [][NextDrives]_vars

---------------------------------------------------------------------------
(* vec_u16_to_string alone, over every buffer of at most MaxLen units and  *)
(* two buffers as get_volume_information passes them.                      *)

\* NUL, 'A', a high surrogate (0xD83D) and a low surrogate (0xDE00).
Units == {0, 65, 55357, 56832}

SeqsUpTo(S, n) == UNION {[1..k -> S] : k \in 0..n}

DataBuffer == Filled(DATA, VOLUME_NAME_CAPACITY)
ZeroBuffer == Filled(EmptyString, VOLUME_NAME_CAPACITY)

Buffers == SeqsUpTo(Units, MaxLen) \cup {DataBuffer, ZeroBuffer}

InitString ==
    /\ bitmask = {}
    /\ hostLastError = -1
    /\ hostType = <<>>
    /\ hostSpace = <<>>
    /\ hostVolume = <<>>
    /\ pc = "start"
    /\ drives = <<>>
    /\ idx = 1
    /\ result = <<>>
    /\ InitLocals
    /\ ret = NoReturn
    /\ log = <<>>
    /\ outcomes = <<>>
    /\ vec \in Buffers
    /\ decoded = [done |-> FALSE, value |-> <<>>]

\* A caller applies vec_u16_to_string to vec.
DecodeBuffer ==
    /\ ~decoded.done
    /\ decoded' = [done |-> TRUE, value |-> vec_u16_to_string(vec)]
    /\ UNCHANGED <<hostVars, pc, drives, idx, result, localVars, ret, log,
                   outcomes, vec>>

NextString == DecodeBuffer

SpecString == InitString /\ [][NextString]_vars

---------------------------------------------------------------------------
(* What the claims speak of. *)

Min(S) == CHOOSE x \in S : \A y \in S : x <= y

\* The letters a bit pattern assigns: bit n is the letter 'A' + n.
LettersOfBits(bits) == {65 + n : n \in bits}
LowBits(bm) == bm \cap (0..25)

LetterSeq(list) == [k \in 1..Len(list) |-> list[k].letter]
Range(seq) == {seq[k] : k \in 1..Len(seq)}
Ascending(seq) == \A j, k \in 1..Len(seq) : j < k => seq[j] < seq[k]

Returned(kind) == pc = "done" /\ ret.kind = kind

\* The queries of the running call that failed, and those with a code the
\* call does not absorb (the bitmask retrieval absorbs none).
SpaceNotReadyFor(l) == l \in DOMAIN hostSpace /\ ~hostSpace[l].ok
                          /\ hostSpace[l].code = 21
VolumeNotReadyFor(l) == l \in DOMAIN hostVolume /\ ~hostVolume[l].ok
                           /\ hostVolume[l].code = 21
Fatal(e) == ~e.ok /\ (e.op = "drives" \/ e.code /= 21)
FatalEvents == {k \in 1..Len(log) : Fatal(log[k])}
InvalidTypeEvents == {k \in 1..Len(log) : log[k].op = "type" /\ log[k].code > 6}
OpRank(op) == CASE op = "drives" -> 0 [] op = "type" -> 1
                [] op = "space" -> 2 [] op = "volume" -> 3

\* The units of a buffer that precede its first 0 unit.
UnitsBeforeFirstZero(v) ==
    LET zeros == {k \in 1..Len(v) : v[k] = 0}
    IN IF zeros = {} THEN v ELSE SubSeq(v, 1, Min(zeros) - 1)

IsScalarValue(c) == c \in 0..1114111 /\ ~(c >= 55296 /\ c <= 57343)

---------------------------------------------------------------------------
(* C1 *)

\* C1, as stated: whenever get_partitions returns Ok, the letters of the
\* records are exactly the letters of the bits set in the 32-bit bitmask,
\* in ascending order, and there are as many records as set bits.
C1_LettersMatchAllBits ==
    Returned("Ok") =>
        /\ Range(LetterSeq(ret.list)) = LettersOfBits(bitmask)
        /\ Ascending(LetterSeq(ret.list))
        /\ Len(ret.list) = Cardinality(bitmask)

\* C1, amended: whenever get_partitions returns Ok, the letters of the
\* records are exactly the letters of the bits set among bits 0..25 of the
\* bitmask, each once, in ascending order, and there are as many records as
\* bits set among bits 0..25 (bits 26..31 give no record).
C1_LettersMatchLowBits ==
    Returned("Ok") =>
        /\ Range(LetterSeq(ret.list)) = LettersOfBits(LowBits(bitmask))
        /\ Ascending(LetterSeq(ret.list))
        /\ Len(ret.list) = Cardinality(LowBits(bitmask))

C1_Witness ==
    /\ Returned("Ok")
    /\ bitmask = {2, 3, 26}
    /\ LetterSeq(ret.list) = <<67, 68>>

---------------------------------------------------------------------------
(* C2 *)

\* C2: when the free-space query of a letter L fails with code 21, no
\* query fails with another code (and every drive type is valid), then
\* get_partitions returns Ok, the record of L has ready = false, size = 0,
\* free_space = 0 and file_system_name = "" whatever the volume-information
\* query of L answered, and every letter after L has its record.
C2_NotReadySpaceRecord ==
    (/\ pc = "done"
     /\ FatalEvents = {}
     /\ InvalidTypeEvents = {})
    => \A k \in 1..Len(drives) :
          SpaceNotReadyFor(drives[k]) =>
             /\ ret.kind = "Ok"
             /\ Len(ret.list) = Len(drives)
             /\ \A j \in k..Len(drives) : ret.list[j].letter = drives[j]
             /\ ret.list[k].ready = FALSE
             /\ ret.list[k].size = 0
             /\ ret.list[k].free_space = 0
             /\ ret.list[k].file_system_name = EmptyString

---------------------------------------------------------------------------
(* C3 *)

\* C3: get_partitions is all-or-nothing. The queries run letters ascending,
\* drive type, free space, volume information within a letter; as soon as
\* the bitmask retrieval has failed, or a free-space or volume-information
\* query has failed with a code other than 21, the call has returned Err
\* with the code of the first such failure and without any record, whatever
\* records were assembled before; and it returns Err in no other case.
C3_AllOrNothing ==
    /\ \A j, k \in 1..Len(log) :
          j < k => \/ log[j].letter < log[k].letter
                   \/ /\ log[j].letter = log[k].letter
                      /\ OpRank(log[j].op) < OpRank(log[k].op)
    /\ FatalEvents /= {} =>
          /\ pc = "done"
          /\ ret.kind = "Err"
          /\ ret.code = log[Min(FatalEvents)].code
          /\ ret.list = <<>>
          /\ Min(FatalEvents) = Len(log)
    /\ ret.kind = "Err" => FatalEvents /= {}
    /\ (bitmask = {} /\ pc = "done") => ret = ReturnErr(hostLastError)

C3_Witness ==
    /\ Returned("Err")
    /\ ret.code = 5
    /\ Len(result) = 1
    /\ log[Len(log)].op = "volume"
    /\ \E k \in 1..Len(log) : ~log[k].ok /\ log[k].code = 21

---------------------------------------------------------------------------
(* C4 *)

\* C4: in every record get_partitions returns, ready = false implies
\* name = "", size = 0, free_space = 0 and file_system_name = "".
C4_NotReadyImpliesEmpty ==
    Returned("Ok") =>
        \A k \in 1..Len(ret.list) :
            ~ret.list[k].ready =>
                /\ ret.list[k].name = EmptyString
                /\ ret.list[k].size = 0
                /\ ret.list[k].free_space = 0
                /\ ret.list[k].file_system_name = EmptyString

---------------------------------------------------------------------------
(* C5 *)

\* C5: in every record get_partitions returns, ready is false if and only
\* if the free-space query or the volume-information query of the record's
\* letter failed with code 21, whatever the drive type.
C5_ReadyIffNoNotReady ==
    Returned("Ok") =>
        \A k \in 1..Len(ret.list) :
            LET l == ret.list[k].letter IN
            /\ l \in DOMAIN hostSpace
            /\ l \in DOMAIN hostVolume
            /\ ret.list[k].ready = ~(SpaceNotReadyFor(l) \/ VolumeNotReadyFor(l))

C5_Witness ==
    /\ Returned("Ok")
    /\ Len(ret.list) = 2
    /\ hostSpace[67].ok /\ VolumeNotReadyFor(67) /\ ~ret.list[1].ready
    /\ hostSpace[68].ok /\ hostVolume[68].ok /\ ret.list[2].ready
    /\ ret.list[2].drive_type = "DriveNoRootDir"

---------------------------------------------------------------------------
(* C6 *)

\* C6, as stated: for every bitmask, get_logical_drive returns Ok with the
\* letters of the bits set among bits 0..25, in ascending order.
C6_EveryBitmaskDecodes ==
    pc /= "start" =>
        /\ pc = "loop"
        /\ Range(drives) = LettersOfBits(LowBits(bitmask))
        /\ Ascending(drives)
        /\ Len(drives) = Cardinality(LowBits(bitmask))

\* C6, amended: for every bitmask other than 0, get_logical_drive returns
\* Ok with exactly the letters 'A' + n of the bits n set among bits 0..25,
\* in ascending order, as many as those bits (bits 26..31 give no letter);
\* for the bitmask 0 it returns Err with the last OS error code.
C6_NonzeroBitmaskDecodes ==
    pc /= "start" =>
        IF bitmask = {}
        THEN Returned("Err") /\ ret.code = hostLastError
        ELSE /\ pc = "loop"
             /\ Range(drives) = LettersOfBits(LowBits(bitmask))
             /\ Ascending(drives)
             /\ Len(drives) = Cardinality(LowBits(bitmask))

C6_Witness ==
    /\ pc = "loop"
    /\ bitmask = {0, 25, 26, 31}
    /\ drives = <<65, 90>>

---------------------------------------------------------------------------
(* C7 *)

\* C7: a native drive-type code c in 0..6 becomes the variant of
\* discriminant c, which is the drive_type of the letter's record; once a
\* code above 6 has been answered the call has panicked: it returns neither
\* Ok nor Err, and no record holds a drive type for that letter.
C7_DriveTypeOrPanic ==
    /\ \A k \in 1..Len(result) :
          /\ result[k].drive_type \in DriveTypes
          /\ Discriminant(result[k].drive_type) = hostType[result[k].letter]
    /\ pc \in {"space", "volume"} =>
          /\ drive_type \in DriveTypes
          /\ Discriminant(drive_type) = hostType[drives[idx]]
    /\ \A k \in InvalidTypeEvents :
          /\ pc = "done"
          /\ ret.kind = "Panic"
          /\ k = Len(log)
          /\ \A j \in 1..Len(result) : result[j].letter /= log[k].letter
    /\ ret.kind = "Panic" => Len(log) \in InvalidTypeEvents

C7_Witness ==
    /\ pc = "done"
    /\ ret.kind = "Panic"
    /\ Len(result) = 1
    /\ result[1].drive_type = "DriveRamDisk"
    /\ hostType[67] = 6
    /\ hostType[68] = 7

---------------------------------------------------------------------------
(* C8 *)

\* C8: vec_u16_to_string decodes exactly the units of its buffer that
\* precede the first 0 unit (all of them without a 0, none when the buffer
\* is empty or starts with 0) and never fails: the slice it takes lies
\* within the buffer and the result is a string of scalar values, the units
\* themselves where none is a surrogate. "DATA" padded with 0 units decodes
\* to "DATA", a buffer of 0 units to "".
C8_DecodesUpToFirstZero ==
    decoded.done =>
        /\ ScanIndex(vec, 0, 0) \in 0..Len(vec)
        /\ decoded.value = from_utf16_lossy(UnitsBeforeFirstZero(vec))
        /\ \A k \in 1..Len(decoded.value) : IsScalarValue(decoded.value[k])
        /\ (\A k \in 1..Len(vec) : vec[k] \in {0, 65, 68, 84})
              => decoded.value = UnitsBeforeFirstZero(vec)
        /\ Len(decoded.value) <= Len(UnitsBeforeFirstZero(vec))
        /\ (vec = <<>> \/ vec[1] = 0) => decoded.value = EmptyString
        /\ vec = DataBuffer => decoded.value = DATA
        /\ vec = ZeroBuffer => decoded.value = EmptyString

C8_Witness ==
    /\ decoded.done
    /\ vec = <<65, 65, 0, 65>>
    /\ decoded.value = <<65, 65>>

---------------------------------------------------------------------------
(* C9 *)

\* C9: a letter whose free-space and volume-information queries both
\* succeeded has a record with ready = true, size = totalBytes,
\* free_space = totalFreeBytes, name the decoding of the volume name and
\* file_system_name the decoding of the file-system name the host wrote
\* before the terminator; and the host with C: (fixed, NTFS,
\* total 100, free 40) and D: (CD-ROM, both queries failing with 21)
\* yields C ready Fixed 100/40 "NTFS" and D not ready CDRom 0/0 "".
ScenarioHost ==
    /\ LowBits(bitmask) = {2, 3}
    /\ hostType = (67 :> 3) @@ (68 :> 5)
    /\ hostSpace[67] = [ok |-> TRUE, value |-> <<10, 100, 40>>, code |-> 0]
    /\ hostVolume[67] = [ok |-> TRUE, label |-> DATA, fs |-> NTFS, code |-> 0]
    /\ SpaceNotReadyFor(68)
    /\ VolumeNotReadyFor(68)

C9_ReadyRecordCarriesAnswers ==
    Returned("Ok") =>
        /\ \A k \in 1..Len(ret.list) :
              LET l == ret.list[k].letter IN
              (hostSpace[l].ok /\ hostVolume[l].ok) =>
                 /\ ret.list[k].ready = TRUE
                 /\ ret.list[k].size = hostSpace[l].value[2]
                 /\ ret.list[k].free_space = hostSpace[l].value[3]
                 /\ ret.list[k].name = from_utf16_lossy(hostVolume[l].label)
                 /\ ret.list[k].file_system_name = from_utf16_lossy(hostVolume[l].fs)
        /\ ScenarioHost =>
              ret.list = <<[letter |-> 67, ready |-> TRUE, name |-> DATA,
                            size |-> 100, free_space |-> 40,
                            file_system_name |-> NTFS,
                            drive_type |-> "DriveFixed"],
                           [letter |-> 68, ready |-> FALSE, name |-> EmptyString,
                            size |-> 0, free_space |-> 0,
                            file_system_name |-> EmptyString,
                            drive_type |-> "DriveCDRom"]>>

C9_Witness ==
    /\ Returned("Ok")
    /\ ScenarioHost
    /\ Len(ret.list) = 2
    /\ ret.list[1].free_space = 40

---------------------------------------------------------------------------
(* C10 *)

\* C10: any two completed calls of get_partitions against the unchanged
\* host have the same outcome: both Err with the same code, or both Ok with
\* the same letters in the same order and the same ready and drive_type
\* for each letter (or both panicked).
C10_SameOutcome ==
    \A i, j \in 1..Len(outcomes) :
        /\ outcomes[i].kind = outcomes[j].kind
        /\ outcomes[i].code = outcomes[j].code
        /\ LetterSeq(outcomes[i].list) = LetterSeq(outcomes[j].list)
        /\ \A k \in 1..Len(outcomes[i].list) :
              /\ outcomes[i].list[k].ready = outcomes[j].list[k].ready
              /\ outcomes[i].list[k].drive_type = outcomes[j].list[k].drive_type

C10_Witness ==
    /\ Len(outcomes) = 2
    /\ outcomes[1].kind = "Ok"
    /\ Len(outcomes[2].list) = 2
    /\ ~outcomes[2].list[1].ready
    /\ outcomes[2].list[2].ready

=============================================================================
